---- MODULE Spec2Model ----
(***************************************************************************)
(* Model of the EVM log decoder: the command-line front end                *)
(* (rust-cli/src/main.rs) and the native binding (rust-napi/src/lib.rs).   *)
(*                                                                         *)
(* Strings that the code inspects character by character (ABI type         *)
(* strings) are sequences of one-character strings.  Hex strings are       *)
(* described by what from_hex looks at: the optional 0x prefix, the number *)
(* of characters after it, whether all of them are hex digits, and the     *)
(* value they spell.                                                       *)
(***************************************************************************)
EXTENDS Integers, Sequences, FiniteSets, TLC

VARIABLES
    type_str,     \* parser check: the ABI type string handed to parse_param_type
    parsed_type,  \* parser check: what parse_param_type returned
    ppc,          \* parser check: "idle", "ready" or "parsed"
    abi,          \* the ABI document (json_value in load_event)
    args_event,   \* CliArgs.event: None or Some(name)
    args_print,   \* CliArgs.print
    napi_event,   \* the event_name argument of decode_file
    cli,          \* the state of main
    napi,         \* the state of decode_file
    cur,          \* the line the reader produced last
    nread,        \* how many lines the reader has produced
    eof,          \* the reader has reached the end of the input
    input_plain,  \* every line produced so far is a plain line (see PlainLine)
    log_inputs,   \* projection check: event.inputs of the record's schema
    log_tokens,   \* projection check: the token decoded for each input
    log_values,   \* projection check: log.params values as parse_log returns them
    json_out,     \* projection check: the object tokens_to_json built
    jpc           \* projection check: "idle", "ready", "parsed" or "printed"

parseVars == <<type_str, parsed_type, ppc>>
runVars == <<abi, args_event, args_print, napi_event, cli, napi, cur, nread, eof, input_plain>>
projVars == <<log_inputs, log_tokens, log_values, json_out, jpc>>
vars == <<type_str, parsed_type, ppc, abi, args_event, args_print, napi_event, cli, napi,
          cur, nread, eof, input_plain, log_inputs, log_tokens, log_values, json_out, jpc>>

(***************************************************************************)
(* Option<T>: None is the empty sequence, Some(x) the one-element one.     *)
(***************************************************************************)
None == <<>>
Some(x) == <<x>>
IsSome(o) == Len(o) = 1
Unwrap(o) == o[1]

(***************************************************************************)
(* ethabi::ParamType.  A descriptor is its innermost non-array type (base, *)
(* n) and the array layers wrapped around it, innermost first: <<"dyn",0>> *)
(* for Array, <<"fixed",N>> for FixedArray.                                *)
(***************************************************************************)
ParamType_Address == [base |-> "Address", n |-> 0, dims |-> <<>>]
ParamType_Bool == [base |-> "Bool", n |-> 0, dims |-> <<>>]
ParamType_String == [base |-> "String", n |-> 0, dims |-> <<>>]
ParamType_Bytes == [base |-> "Bytes", n |-> 0, dims |-> <<>>]
ParamType_FixedBytes(k) == [base |-> "FixedBytes", n |-> k, dims |-> <<>>]
ParamType_Uint(k) == [base |-> "Uint", n |-> k, dims |-> <<>>]
ParamType_Int(k) == [base |-> "Int", n |-> k, dims |-> <<>>]
ParamType_Array(inner) == [inner EXCEPT !.dims = Append(@, <<"dyn", 0>>)]
ParamType_FixedArray(inner, k) == [inner EXCEPT !.dims = Append(@, <<"fixed", k>>)]

(***************************************************************************)
(* str::starts_with, str::ends_with, and the slice s[k..] (k chars cut).   *)
(***************************************************************************)
starts_with(s, p) == Len(s) >= Len(p) /\ SubSeq(s, 1, Len(p)) = p
ends_with(s, p) == Len(s) >= Len(p) /\ SubSeq(s, Len(s) - Len(p) + 1, Len(s)) = p
SliceFrom(s, k) == SubSeq(s, k + 1, Len(s))

Digits == <<"0", "1", "2", "3", "4", "5", "6", "7", "8", "9">>
IsDigit(c) == \E d \in 1..10 : Digits[d] = c
DigitVal(c) == (CHOOSE d \in 1..10 : Digits[d] = c) - 1

RECURSIVE DecimalValue(_)
DecimalValue(s) ==
    IF s = <<>> THEN 0
    ELSE 10 * DecimalValue(SubSeq(s, 1, Len(s) - 1)) + DigitVal(s[Len(s)])

(***************************************************************************)
(* str::parse::<usize>(): an optional leading "+", then one or more        *)
(* decimal digits; anything else is Err (None here).  The overflow error   *)
(* needs twenty digits or more; the type strings below carry at most       *)
(* three, so that arm is never taken and is left out.                      *)
(***************************************************************************)
ParseUsize(s) ==
    LET body == IF s # <<>> /\ s[1] = "+" THEN Tail(s) ELSE s
    IN  IF body = <<>> THEN None
        ELSE IF \E i \in 1..Len(body) : ~IsDigit(body[i]) THEN None
        ELSE Some(DecimalValue(body))

unwrap_or(o, d) == IF IsSome(o) THEN Unwrap(o) ELSE d

S_address == <<"a", "d", "d", "r", "e", "s", "s">>
S_bool == <<"b", "o", "o", "l">>
S_string == <<"s", "t", "r", "i", "n", "g">>
S_bytes == <<"b", "y", "t", "e", "s">>
S_uint == <<"u", "i", "n", "t">>
S_int == <<"i", "n", "t">>
S_brackets == <<"[", "]">>

DefaultBits == 256

(***************************************************************************)
(* parse_param_type: the match arms in source order.                       *)
(***************************************************************************)
RECURSIVE parse_param_type(_)
parse_param_type(s) ==
    IF s = S_address THEN Some(ParamType_Address)
    ELSE IF s = S_bool THEN Some(ParamType_Bool)
    ELSE IF s = S_string THEN Some(ParamType_String)
    ELSE IF s = S_bytes THEN Some(ParamType_Bytes)
    ELSE IF starts_with(s, S_bytes) THEN
        LET k == ParseUsize(SliceFrom(s, 5))
        IN  IF IsSome(k) THEN Some(ParamType_FixedBytes(Unwrap(k))) ELSE None
    ELSE IF starts_with(s, S_uint) THEN
        Some(ParamType_Uint(unwrap_or(ParseUsize(SliceFrom(s, 4)), DefaultBits)))
    ELSE IF starts_with(s, S_int) THEN
        Some(ParamType_Int(unwrap_or(ParseUsize(SliceFrom(s, 3)), DefaultBits)))
    ELSE IF ends_with(s, S_brackets) THEN
        LET inner_t == parse_param_type(SubSeq(s, 1, Len(s) - 2))
        IN  IF IsSome(inner_t) THEN Some(ParamType_Array(Unwrap(inner_t))) ELSE None
    ELSE None

(***************************************************************************)
(* serde_json::Value as far as the code looks at it.  A field read with    *)
(* v.get(key) is "missing" when the key is absent, "str" / "bool" /        *)
(* "array" when as_str / as_bool / as_array succeeds, "other" when the key *)
(* is there with a value of another JSON type.                             *)
(***************************************************************************)
JMissing == [k |-> "missing", s |-> <<>>, b |-> FALSE]
JOther == [k |-> "other", s |-> <<>>, b |-> FALSE]
JStr(str) == [k |-> "str", s |-> str, b |-> FALSE]
JBool(bool) == [k |-> "bool", s |-> <<>>, b |-> bool]
JNoArray == [k |-> "missing", items |-> <<>>]
JNotArray == [k |-> "other", items |-> <<>>]
JArray(seq) == [k |-> "array", items |-> seq]

(* One element of an event's "inputs" array. *)
JInput(name, type, indexed) == [name |-> name, type |-> type, indexed |-> indexed]
(* One element of the ABI array. *)
JEntry(type, name, inputs) == [type |-> type, name |-> name, inputs |-> inputs]

EventParam(name, kind, indexed) == [name |-> name, kind |-> kind, indexed |-> indexed]
Event(name, inputs) == [name |-> name, inputs |-> inputs, anonymous |-> FALSE]

(* Mutant of parse_inputs: an input whose type does not parse is skipped. *)
RECURSIVE parse_inputs_skipping(_)
parse_inputs_skipping(inputs_v) ==
    IF inputs_v = <<>> THEN Some(<<>>)
    ELSE LET i == Head(inputs_v)
             param_type == parse_param_type(IF i.type.k = "str" THEN i.type.s ELSE <<>>)
             rest == Unwrap(parse_inputs_skipping(Tail(inputs_v)))
         IN  IF ~IsSome(param_type) THEN Some(rest)
             ELSE Some(<<EventParam(IF i.name.k = "str" THEN i.name.s ELSE <<>>,
                                    Unwrap(param_type),
                                    IF i.indexed.k = "bool" THEN i.indexed.b ELSE FALSE)>> \o rest)

(***************************************************************************)
(* The loop over inputs_v in parse_event_from_value: None as soon as one   *)
(* type string does not parse, else the parameters in order.               *)
(***************************************************************************)
RECURSIVE parse_inputs(_)
parse_inputs(inputs_v) ==
    IF inputs_v = <<>> THEN Some(<<>>)
    ELSE LET i == Head(inputs_v)
             name_i == IF i.name.k = "str" THEN i.name.s ELSE <<>>
             indexed == IF i.indexed.k = "bool" THEN i.indexed.b ELSE FALSE
             type_s == IF i.type.k = "str" THEN i.type.s ELSE <<>>
             param_type == parse_param_type(type_s)
         IN  IF ~IsSome(param_type) THEN None
             ELSE LET rest == parse_inputs(Tail(inputs_v))
                  IN  IF ~IsSome(rest) THEN None
                      ELSE Some(<<EventParam(name_i, Unwrap(param_type), indexed)>>
                                \o Unwrap(rest))

(* The tail of parse_event_from_value: Some(Event { name, inputs, .. }). *)
event_of(name, inputs) == IF IsSome(inputs) THEN Some(Event(name, Unwrap(inputs))) ELSE None

parse_event_from_value(v) ==
    IF ~(v.type.k = "str" /\ v.type.s = "event") THEN None
    ELSE IF v.name.k # "str" THEN None
    ELSE IF v.inputs.k # "array" THEN None
    ELSE event_of(v.name.s, parse_inputs(v.inputs.items))

(* arr.iter().filter_map(parse_event_from_value).collect() *)
RECURSIVE filter_map_events(_)
filter_map_events(arr) ==
    IF arr = <<>> THEN <<>>
    ELSE LET e == parse_event_from_value(Head(arr))
         IN  (IF IsSome(e) THEN <<Unwrap(e)>> ELSE <<>>) \o filter_map_events(Tail(arr))

(***************************************************************************)
(* The top-level ABI document: a JSON array, an object (of which only the  *)
(* abi and events members are read), or any other JSON value.              *)
(***************************************************************************)
AbiArray(arr) == [k |-> "array", items |-> arr, abi |-> JNoArray, events |-> JNoArray]
AbiObject(abi_f, events_f) == [k |-> "object", items |-> <<>>, abi |-> abi_f, events |-> events_f]
AbiScalar == [k |-> "other", items |-> <<>>, abi |-> JNoArray, events |-> JNoArray]

(* The first statement of load_event: Err for an unsupported structure. *)
abi_events(json_value) ==
    IF json_value.k = "array" THEN [ok |-> TRUE, events |-> filter_map_events(json_value.items)]
    ELSE IF json_value.k = "object" THEN
        IF json_value.abi.k = "array"
        THEN [ok |-> TRUE, events |-> filter_map_events(json_value.abi.items)]
        ELSE IF json_value.events.k = "array"
        THEN [ok |-> TRUE, events |-> filter_map_events(json_value.events.items)]
        ELSE [ok |-> FALSE, events |-> <<>>]
    ELSE [ok |-> FALSE, events |-> <<>>]

NoEvent == Event("", <<>>)

(* events.iter().find(|e| e.name == event_name) *)
find_by_name(events, event_name) ==
    IF \E i \in 1..Len(events) : events[i].name = event_name
    THEN Some(events[CHOOSE i \in 1..Len(events) :
                        /\ events[i].name = event_name
                        /\ \A j \in 1..(i - 1) : events[j].name # event_name])
    ELSE None

(***************************************************************************)
(* load_event: the selection among the events built (lines 141 to 154 of   *)
(* main.rs).  err is "" on success.                                        *)
(***************************************************************************)
LoadFailed(e) == [err |-> e, event |-> NoEvent, events |-> <<>>]
Loaded(event, events) == [err |-> "", event |-> event, events |-> events]

found_or(found, events, e) == IF IsSome(found) THEN Loaded(Unwrap(found), events) ELSE LoadFailed(e)

select_event(built, event_name) ==
    IF ~built.ok THEN LoadFailed("Unsupported ABI JSON structure")
    ELSE IF event_name = "" THEN
        IF built.events = <<>> THEN LoadFailed("No events found in ABI")
        ELSE Loaded(built.events[1], built.events)
    ELSE found_or(find_by_name(built.events, event_name), built.events, "Event not found in ABI")

load_event(json_value, event_name) == select_event(abi_events(json_value), event_name)

(* The same selection in lib.rs (lines 87 to 92). *)
napi_select_event(built, event_name) ==
    IF ~built.ok THEN LoadFailed("Unsupported ABI JSON structure")
    ELSE IF event_name = "" THEN
        IF built.events = <<>> THEN LoadFailed("No events in ABI")
        ELSE Loaded(Head(built.events), built.events)
    ELSE found_or(find_by_name(built.events, event_name), built.events, "Event not found")

napi_load_event(json_value, event_name) == napi_select_event(abi_events(json_value), event_name)

(***************************************************************************)
(* Event::signature of ethabi: keccak256 of name(type1,type2,...) in the   *)
(* canonical spelling of each type.  A 32-byte hash is represented by the  *)
(* string it is the hash of (keccak256 taken as collision-free), so two    *)
(* events have the same signature exactly when their names and parameter   *)
(* types agree.                                                            *)
(***************************************************************************)
RECURSIVE ToDecimal(_)
ToDecimal(k) == IF k < 10 THEN <<Digits[k + 1]>> ELSE ToDecimal(k \div 10) \o <<Digits[(k % 10) + 1]>>

RECURSIVE WriteDims(_)
WriteDims(dims) ==
    IF dims = <<>> THEN <<>>
    ELSE (IF Head(dims)[1] = "dyn" THEN S_brackets
          ELSE <<"[">> \o ToDecimal(Head(dims)[2]) \o <<"]">>) \o WriteDims(Tail(dims))

WriteType(t) ==
    (CASE t.base = "Address" -> S_address
       [] t.base = "Bool" -> S_bool
       [] t.base = "String" -> S_string
       [] t.base = "Bytes" -> S_bytes
       [] t.base = "FixedBytes" -> S_bytes \o ToDecimal(t.n)
       [] t.base = "Uint" -> S_uint \o ToDecimal(t.n)
       [] t.base = "Int" -> S_int \o ToDecimal(t.n)) \o WriteDims(t.dims)

RECURSIVE JoinTypes(_)
JoinTypes(inputs) ==
    IF inputs = <<>> THEN <<>>
    ELSE IF Len(inputs) = 1 THEN WriteType(inputs[1].kind)
    ELSE WriteType(inputs[1].kind) \o <<",">> \o JoinTypes(Tail(inputs))

signature(ev) == <<ev.name, "(">> \o JoinTypes(ev.inputs) \o <<")">>

(***************************************************************************)
(* The HashMap<H256, Event> built from the events in load order; insert    *)
(* replaces the value of a key already present.                            *)
(***************************************************************************)
EmptyMap == [h \in {} |-> NoEvent]
(* Mutant of map_insert: a key already present keeps its value (or_insert). *)
map_insert_keeps_first(map, key, value) ==
    [h \in DOMAIN map \cup {key} |-> IF h \in DOMAIN map THEN map[h] ELSE value]

map_insert(map, key, value) == [h \in DOMAIN map \cup {key} |-> IF h = key THEN value ELSE map[h]]
map_get(map, key) == IF key \in DOMAIN map THEN Some(map[key]) ELSE None

RECURSIVE insert_all(_, _)
insert_all(map, events) ==
    IF events = <<>> THEN map
    ELSE insert_all(map_insert(map, signature(Head(events)), Head(events)), Tail(events))

build_topic0_map(all_events) == insert_all(EmptyMap, all_events)

(***************************************************************************)
(* A hex string as from_hex sees it: whether it starts with 0x (stripped   *)
(* once by strip_prefix), the number of characters after that, whether     *)
(* all of those are hex digits, and the bytes they spell: for a topic the  *)
(* 32-byte word (val), for data only the byte count matters.               *)
(***************************************************************************)
HexStr(pfx, nchars, clean, val) == [pfx |-> pfx, nchars |-> nchars, clean |-> clean, val |-> val]

H256Bytes == 32

(* <[u8; 32]>::from_hex: even length, exactly 32 bytes, only hex digits. *)
parse_h256(s) ==
    IF s.nchars % 2 = 0 /\ s.nchars \div 2 = H256Bytes /\ s.clean THEN Some(s.val) ELSE None

(* Vec::from_hex: even length, only hex digits.  The result is its length. *)
parse_hex_bytes(s) ==
    IF s.nchars % 2 = 0 /\ s.clean THEN Some(s.nchars \div 2) ELSE None

(* topics.iter().map(parse_h256).collect::<Result<Vec<H256>>>() *)
RECURSIVE collect_h256(_)
collect_h256(topics) ==
    IF topics = <<>> THEN Some(<<>>)
    ELSE LET h == parse_h256(Head(topics))
             rest == collect_h256(Tail(topics))
         IN  IF IsSome(h) /\ IsSome(rest) THEN Some(<<Unwrap(h)>> \o Unwrap(rest)) ELSE None

(***************************************************************************)
(* One line of the input.  k is "blank" for the empty line, "text" for a   *)
(* line that is not JSON, "json" for a JSON value: an object (its members  *)
(* in order, a key may repeat), an array (its elements) or another value.  *)
(* A member or element value is a string (hex), an array (items) of        *)
(* strings and other values, or another value.                             *)
(***************************************************************************)
NoHex == HexStr(FALSE, 0, TRUE, <<>>)
LStr(hex) == [k |-> "str", hex |-> hex, items |-> <<>>]
LArr(items) == [k |-> "arr", hex |-> NoHex, items |-> items]
LOther == [k |-> "other", hex |-> NoHex, items |-> <<>>]
LStrings(hexes) == LArr([i \in 1..Len(hexes) |-> LStr(hexes[i])])
Member(key, val) == [key |-> key, val |-> val]

BlankLine == [k |-> "blank", shape |-> "none", members |-> <<>>, elems |-> <<>>]
TextLine == [k |-> "text", shape |-> "none", members |-> <<>>, elems |-> <<>>]
ObjectLine(members) == [k |-> "json", shape |-> "object", members |-> members, elems |-> <<>>]
ArrayLine(elems) == [k |-> "json", shape |-> "array", members |-> <<>>, elems |-> elems]
ScalarLine == [k |-> "json", shape |-> "other", members |-> <<>>, elems |-> <<>>]

LogLine(topics, data) == [topics |-> topics, data |-> data]

(* Deserialize for Vec<String> and for String. *)
de_vec_string(v) ==
    IF v.k = "arr" /\ \A i \in 1..Len(v.items) : v.items[i].k = "str"
    THEN Some([i \in 1..Len(v.items) |-> v.items[i].hex])
    ELSE None
de_string(v) == IF v.k = "str" THEN Some(v.hex) ELSE None

(***************************************************************************)
(* The derived Deserialize of LogLine over a JSON object (visit_map): a    *)
(* repeated topics or data key is an error, as is a value of the wrong     *)
(* type or a field never seen; any other key is ignored.                   *)
(***************************************************************************)
RECURSIVE visit_map(_, _, _)
visit_map(members, topics, data) ==
    IF members = <<>> THEN
        IF IsSome(topics) /\ IsSome(data) THEN Some(LogLine(Unwrap(topics), Unwrap(data))) ELSE None
    ELSE LET m == Head(members)
         IN  IF m.key = "topics" THEN
                 IF IsSome(topics) \/ ~IsSome(de_vec_string(m.val)) THEN None
                 ELSE visit_map(Tail(members), Some(Unwrap(de_vec_string(m.val))), data)
             ELSE IF m.key = "data" THEN
                 IF IsSome(data) \/ ~IsSome(de_string(m.val)) THEN None
                 ELSE visit_map(Tail(members), topics, Some(Unwrap(de_string(m.val))))
             ELSE visit_map(Tail(members), topics, data)

(* The same over a JSON array (visit_seq): the fields in declaration order. *)
visit_seq(elems) ==
    IF Len(elems) = 2 /\ IsSome(de_vec_string(elems[1])) /\ IsSome(de_string(elems[2]))
    THEN Some(LogLine(Unwrap(de_vec_string(elems[1])), Unwrap(de_string(elems[2]))))
    ELSE None

(* serde_json::from_str::<LogLine>(&line) *)
from_str_LogLine(line) ==
    IF line.k # "json" THEN None
    ELSE IF line.shape = "object" THEN visit_map(line.members, None, None)
    ELSE IF line.shape = "array" THEN visit_seq(line.elems)
    ELSE None

(***************************************************************************)
(* Value::get of the native binding: the member of an object with that     *)
(* key (the last one when the key repeats), None for any other value.      *)
(***************************************************************************)
value_get(line, key) ==
    IF line.shape = "object" /\ \E i \in 1..Len(line.members) : line.members[i].key = key
    THEN Some(line.members[CHOOSE i \in 1..Len(line.members) :
                /\ line.members[i].key = key
                /\ \A j \in (i + 1)..Len(line.members) : line.members[j].key # key].val)
    ELSE None

(***************************************************************************)
(* Event::parse_log of ethabi for an event that is not anonymous: the      *)
(* first topic must be the event's signature, the remaining topics are one *)
(* per indexed parameter, and data must hold the non-indexed parameters    *)
(* (one head slot of the size of a topic each; a dynamic type needs at     *)
(* least a length word more).                                              *)
(***************************************************************************)
is_dynamic(t) == t.base \in {"String", "Bytes"} \/ \E i \in 1..Len(t.dims) : t.dims[i][1] = "dyn"
indexed_params(ev, indexed) == SelectSeq(ev.inputs, LAMBDA p : p.indexed = indexed)

RECURSIVE min_data_len(_)
min_data_len(params) ==
    IF params = <<>> THEN 0
    ELSE (IF is_dynamic(Head(params).kind) THEN 2 * H256Bytes ELSE H256Bytes)
         + min_data_len(Tail(params))

parse_log(ev, topics, data_len) ==
    /\ topics # <<>>
    /\ topics[1] = signature(ev)
    /\ Len(topics) - 1 = Len(indexed_params(ev, TRUE))
    /\ data_len >= min_data_len(indexed_params(ev, FALSE))

(***************************************************************************)
(* What one pass of a read loop did with its line: outcome is "blank"      *)
(* (continue on the empty line), "skipped" (continue on an empty topics    *)
(* list), "decoded" (parse_log succeeded) or "error" (the ? operator       *)
(* returned err); event is the schema chosen for the record, if one was.   *)
(***************************************************************************)
Pass(outcome, err, event) == [outcome |-> outcome, err |-> err, event |-> event]
Fail(err) == Pass("error", err, None)

(***************************************************************************)
(* The body of the for loop of main, lines 66 to 95, one definition for    *)
(* each point where the ? operator may return.                             *)
(***************************************************************************)
main_parse_log(event, topics, data) ==
    IF ~IsSome(data) THEN Fail("Invalid hex bytes")
    ELSE IF ~parse_log(event, topics, Unwrap(data))
    THEN Pass("error", "Failed to parse log with ethabi", Some(event))
    ELSE Pass("decoded", "", Some(event))

main_event(event, topics, data_s) ==
    IF ~IsSome(event) THEN Fail("Unknown topic0 for provided ABI")
    ELSE main_parse_log(Unwrap(event), topics, parse_hex_bytes(data_s))

main_topics(selected_event, topic0_to_event, parsed_topics, data_s) ==
    IF ~IsSome(parsed_topics) THEN Fail("Invalid H256 hex")
    ELSE IF Unwrap(parsed_topics) = <<>> THEN Pass("skipped", "", None)
    ELSE main_event(IF IsSome(topic0_to_event)
                    THEN map_get(Unwrap(topic0_to_event), Unwrap(parsed_topics)[1])
                    ELSE Some(selected_event),
                    Unwrap(parsed_topics), data_s)

main_parsed(selected_event, topic0_to_event, parsed) ==
    IF ~IsSome(parsed) THEN Fail("Invalid JSON line")
    ELSE main_topics(selected_event, topic0_to_event,
                     collect_h256(Unwrap(parsed).topics), Unwrap(parsed).data)

main_record(selected_event, topic0_to_event, line) ==
    IF line.k = "blank" THEN Pass("blank", "", None)
    ELSE main_parsed(selected_event, topic0_to_event, from_str_LogLine(line))

(***************************************************************************)
(* The body of the for loop of decode_file, lines 42 to 65, in the same    *)
(* way.                                                                    *)
(***************************************************************************)
decode_file_parse_log(event, topics, data) ==
    IF ~IsSome(data) THEN Fail("Invalid hex bytes")
    ELSE IF ~parse_log(event, topics, Unwrap(data))
    THEN Pass("error", "parse_log failed", Some(event))
    ELSE Pass("decoded", "", Some(event))

(* Mutant of decode_file_event: a record of an unknown topic0 is skipped. *)
decode_file_event_skips_unknown(event, topics, data_s) ==
    IF ~IsSome(event) THEN Pass("skipped", "", None)
    ELSE decode_file_parse_log(Unwrap(event), topics, parse_hex_bytes(data_s))

decode_file_event(event, topics, data_s) ==
    IF ~IsSome(event) THEN Fail("unknown topic0")
    ELSE decode_file_parse_log(Unwrap(event), topics, parse_hex_bytes(data_s))

decode_file_topics(selected_event, topic0_to_event, topics, data_s) ==
    IF ~IsSome(topics) THEN Fail("Invalid H256 hex")
    ELSE IF Unwrap(topics) = <<>> THEN Pass("skipped", "", None)
    ELSE decode_file_event(IF IsSome(topic0_to_event)
                           THEN map_get(Unwrap(topic0_to_event), Unwrap(topics)[1])
                           ELSE Some(selected_event),
                           Unwrap(topics), data_s)

decode_file_value(selected_event, topic0_to_event, topics_v, data_s) ==
    IF ~(IsSome(topics_v) /\ Unwrap(topics_v).k = "arr") THEN Fail("no topics")
    ELSE IF ~(IsSome(data_s) /\ Unwrap(data_s).k = "str") THEN Fail("no data")
    ELSE IF \E i \in 1..Len(Unwrap(topics_v).items) : Unwrap(topics_v).items[i].k # "str"
    THEN Fail("topic not string")
    ELSE decode_file_topics(selected_event, topic0_to_event,
                            collect_h256([i \in 1..Len(Unwrap(topics_v).items) |->
                                             Unwrap(topics_v).items[i].hex]),
                            Unwrap(data_s).hex)

decode_file_record(selected_event, topic0_to_event, line) ==
    IF line.k = "blank" THEN Pass("blank", "", None)
    ELSE IF line.k # "json" THEN Fail("invalid JSON")
    ELSE decode_file_value(selected_event, topic0_to_event,
                           value_get(line, "topics"), value_get(line, "data"))

(***************************************************************************)
(* The state of one program: where it is (pc), the result of load_event,   *)
(* the topic0 map, the decoded count, the lines printed, the number of     *)
(* input lines consumed (at) and what the last pass did.                   *)
(***************************************************************************)
Fresh ==
    [pc |-> "start", selected_event |-> NoEvent, all_events |-> <<>>,
     topic0_to_event |-> None, total |-> 0, printed |-> 0, at |-> 0,
     last |-> Pass("none", "", None)]

(* What a program's state becomes when load_event has returned r. *)
after_load(c, r) ==
    IF r.err # "" THEN [c EXCEPT !.pc = "failed", !.last = Fail(r.err)]
    ELSE [c EXCEPT !.pc = "loaded", !.selected_event = r.event, !.all_events = r.events]

(* What it becomes when a pass of the loop over line number n ended as r. *)
after_pass(c, r, print, n) ==
    [c EXCEPT !.at = n, !.last = r,
              !.pc = IF r.outcome = "error" THEN "failed" ELSE "loop",
              !.total = IF r.outcome = "decoded" THEN @ + 1 ELSE @,
              !.printed = IF r.outcome = "decoded" /\ print THEN @ + 1 ELSE @]

(* main, line 44: load_event(&args.abi, args.event.as_deref().unwrap_or("")) *)
main_load(c, json_value, event_opt) ==
    after_load(c, load_event(json_value, unwrap_or(event_opt, "")))

(* main, lines 47 to 55. *)
main_build_map(c, event_opt) ==
    [c EXCEPT !.pc = "loop",
              !.topic0_to_event = IF event_opt = None THEN Some(build_topic0_map(c.all_events))
                                  ELSE None]

(* Mutant of main_step: a topic0 not in the map is entered into it (entry().or_insert). *)
main_step_learns_topic0(c, line, print, n) ==
    LET r == main_record(c.selected_event, c.topic0_to_event, line)
    IN  [after_pass(c, r, print, n) EXCEPT
            !.topic0_to_event =
                IF r.err = "Unknown topic0 for provided ABI"
                THEN Some(map_insert(Unwrap(@),
                                     Unwrap(collect_h256(Unwrap(from_str_LogLine(line)).topics))[1],
                                     c.selected_event))
                ELSE @]

(* main, lines 65 to 102: one pass of the loop over the line read. *)
main_step(c, line, print, n) ==
    after_pass(c, main_record(c.selected_event, c.topic0_to_event, line), print, n)

(* decode_file, lines 24 and 25. *)
decode_file_load(c, json_value, name) ==
    after_load(c, napi_load_event(json_value, IF name = "" THEN "" ELSE name))

(* decode_file, lines 27 to 32. *)
decode_file_build_map(c, name) ==
    [c EXCEPT !.pc = "loop",
              !.topic0_to_event = IF name = "" THEN Some(build_topic0_map(c.all_events))
                                  ELSE None]

(* decode_file, lines 41 to 66: one pass (nothing is printed). *)
decode_file_step(c, line, n) ==
    after_pass(c, decode_file_record(c.selected_event, c.topic0_to_event, line), FALSE, n)

(***************************************************************************)
(* Token of ethabi (v: the number the bytes spell, n: how many bytes a     *)
(* Bytes or FixedBytes holds, s: the text of a String, elems: the elements *)
(* of an array or tuple) and serde_json's Value as built by token_to_json. *)
(***************************************************************************)
Token(t, v, n, str, elems) == [t |-> t, v |-> v, n |-> n, s |-> str, elems |-> elems]
JsonString(str) == [k |-> "string", s |-> str, b |-> FALSE, elems |-> <<>>]
JsonBool(bool) == [k |-> "bool", s |-> <<>>, b |-> bool, elems |-> <<>>]
JsonArray(elems) == [k |-> "array", s |-> <<>>, b |-> FALSE, elems |-> elems]

HexDigits == Digits \o <<"a", "b", "c", "d", "e", "f">>
AddressBytes == 20

(* hex::encode of the width bytes that spell v: two digits a byte. *)
RECURSIVE hex_encode(_, _)
hex_encode(v, width) ==
    IF width = 0 THEN <<>>
    ELSE hex_encode(v \div 256, width - 1)
         \o <<HexDigits[((v % 256) \div 16) + 1], HexDigits[(v % 16) + 1]>>

RECURSIVE token_to_json(_)
token_to_json(token) ==
    CASE token.t = "Address" -> JsonString(<<"0", "x">> \o hex_encode(token.v, AddressBytes))
      [] token.t \in {"Uint", "Int"} -> JsonString(ToDecimal(token.v))
      [] token.t = "Bool" -> JsonBool(token.v # 0)
      [] token.t \in {"FixedBytes", "Bytes"} ->
            JsonString(<<"0", "x">> \o hex_encode(token.v, token.n))
      [] token.t = "String" -> JsonString(token.s)
      [] token.t \in {"Array", "Tuple", "FixedArray"} ->
            JsonArray([i \in 1..Len(token.elems) |-> token_to_json(token.elems[i])])

EmptyObject == [key \in {} |-> JsonBool(FALSE)]

(* format!("arg{}", i) *)
arg_key(i) == <<"a", "r", "g">> \o ToDecimal(i)

(***************************************************************************)
(* tokens_to_json: the loop over tokens.iter().enumerate(), done stands    *)
(* for the tokens already inserted (i is 0-based, done = i).               *)
(***************************************************************************)
RECURSIVE tokens_to_json_from(_, _, _, _)
tokens_to_json_from(inputs, tokens, done, obj) ==
    IF done = Len(tokens) THEN obj
    ELSE LET name == IF done + 1 <= Len(inputs) THEN inputs[done + 1].name ELSE <<>>
             key == IF name = <<>> THEN arg_key(done) ELSE name
         IN  tokens_to_json_from(inputs, tokens, done + 1,
                                 map_insert(obj, key, token_to_json(tokens[done + 1])))

tokens_to_json(inputs, tokens) == tokens_to_json_from(inputs, tokens, 0, EmptyObject)

(***************************************************************************)
(* log.params as Event::parse_log of ethabi returns them: the decoded      *)
(* tokens are collected into a map keyed by parameter name (the topics'    *)
(* tokens first, then the data's, a later entry replacing an earlier one   *)
(* of the same name) and read back by name in the order of event.inputs.   *)
(***************************************************************************)
last_named(inputs, tokens, name) ==
    LET idx == { i \in 1..Len(inputs) : inputs[i].name = name }
        plain == { i \in idx : ~inputs[i].indexed }
        pick(set) == CHOOSE i \in set : \A j \in set : j <= i
    IN  tokens[IF plain # {} THEN pick(plain) ELSE pick(idx)]

log_params(inputs, tokens) ==
    [i \in 1..Len(inputs) |-> last_named(inputs, tokens, inputs[i].name)]

(***************************************************************************)
(* The type strings fed to the parser: a base spelling followed by up to   *)
(* MaxBrackets bracket groups, each "[]" or "[3]".                         *)
(***************************************************************************)
MaxBrackets == 2

BaseSpellings ==
    { S_address, S_bool, S_string, S_bytes, S_uint, S_int,
      S_bytes \o <<"3", "2">>, S_bytes \o <<"1">>, S_bytes \o <<"3", "3">>,
      S_bytes \o <<"0">>, S_bytes \o <<"x">>, S_bytes \o <<"+", "4">>,
      S_uint \o <<"2", "5", "6">>, S_uint \o <<"8">>, S_uint \o <<"7">>,
      S_uint \o <<"0">>, S_uint \o <<"2", "6", "4">>, S_uint \o <<"a", "b">>,
      S_int \o <<"1", "2", "8">>, S_int \o <<"3">>, S_int \o <<"5", "1", "2">>,
      S_int \o <<"_", "8">>,
      <<"t", "u", "p", "l", "e">>, <<"a", "d", "d", "r">>, <<>> }

BracketGroups == { S_brackets, <<"[", "3", "]">> }

RECURSIVE WithBrackets(_)
WithBrackets(k) ==
    IF k = 0 THEN BaseSpellings
    ELSE LET shorter == WithBrackets(k - 1)
         IN  shorter \cup { t \o g : t \in shorter, g \in BracketGroups }

TypeStrings == WithBrackets(MaxBrackets)

(***************************************************************************)
(* The ABI entries the documents are made of.                              *)
(***************************************************************************)
N_from == <<"f", "r", "o", "m">>
N_to == <<"t", "o">>
N_value == <<"v", "a", "l", "u", "e">>
S_uint256 == S_uint \o <<"2", "5", "6">>

J_Transfer ==
    JEntry(JStr("event"), JStr("Transfer"),
           JArray(<<JInput(JStr(N_from), JStr(S_address), JBool(TRUE)),
                    JInput(JStr(N_to), JStr(S_address), JBool(TRUE)),
                    JInput(JStr(N_value), JStr(S_uint256), JBool(FALSE))>>))
(* The same name and types, nothing indexed, other parameter names. *)
J_TransferFlat ==
    JEntry(JStr("event"), JStr("Transfer"),
           JArray(<<JInput(JStr(<<"a">>), JStr(S_address), JMissing),
                    JInput(JMissing, JStr(S_address), JOther),
                    JInput(JStr(<<"c">>), JStr(S_uint), JMissing)>>))
J_Approval ==
    JEntry(JStr("event"), JStr("Approval"),
           JArray(<<JInput(JStr(<<"o", "w", "n", "e", "r">>), JStr(S_address), JBool(TRUE)),
                    JInput(JMissing, JStr(S_uint \o <<"7">>), JMissing)>>))
J_Function == JEntry(JStr("function"), JStr("Transfer"), JArray(<<>>))
J_Tuple ==
    JEntry(JStr("event"), JStr("Approval"),
           JArray(<<JInput(JStr(N_to), JStr(S_bool), JMissing),
                    JInput(JStr(N_value), JStr(<<"t", "u", "p", "l", "e">>), JMissing)>>))
J_InputNoType ==
    JEntry(JStr("event"), JStr("Transfer"), JArray(<<JInput(JStr(N_to), JMissing, JMissing)>>))
J_NoName == JEntry(JStr("event"), JMissing, JArray(<<>>))
J_NoInputs == JEntry(JStr("event"), JStr("Approval"), JNoArray)
J_NoType == JEntry(JMissing, JStr("Transfer"), JArray(<<>>))
J_Unnamed == JEntry(JStr("event"), JStr(""), JArray(<<>>))

EntryPool ==
    { J_Transfer, J_TransferFlat, J_Approval, J_Function, J_Tuple, J_InputNoType,
      J_NoName, J_NoInputs, J_NoType, J_Unnamed }

MaxEntries == 2

RECURSIVE SeqsUpTo(_, _)
SeqsUpTo(S, k) ==
    IF k = 0 THEN { <<>> }
    ELSE LET shorter == SeqsUpTo(S, k - 1)
         IN  shorter \cup { Append(q, x) : q \in shorter, x \in S }

(* The documents of the loading check: every shape load_event tells apart. *)
LoadAbis ==
    LET arrs == SeqsUpTo(EntryPool, MaxEntries)
    IN  { AbiArray(a) : a \in arrs }
        \cup { AbiObject(JArray(a), JNoArray) : a \in arrs }
        \cup { AbiObject(JArray(a), JArray(<<J_Approval>>)) : a \in arrs }
        \cup { AbiObject(JNoArray, JArray(a)) : a \in arrs }
        \cup { AbiObject(JNotArray, JArray(a)) : a \in arrs }
        \cup { AbiObject(JNoArray, JNoArray), AbiObject(JNotArray, JNotArray),
               AbiObject(JNoArray, JNotArray), AbiScalar }

(* The documents of the decoding runs. *)
RunAbis ==
    { AbiArray(<<J_Transfer, J_Approval>>),
      AbiArray(<<J_TransferFlat, J_Function, J_Transfer>>),
      AbiObject(JNoArray, JArray(<<J_Unnamed, J_Approval>>)),
      AbiArray(<<J_Tuple>>) }

EventArgs == { None, Some(""), Some("Transfer"), Some("Approval"), Some("Burn") }

(***************************************************************************)
(* The input lines of the decoding runs.                                   *)
(***************************************************************************)
Ev_Transfer == Unwrap(parse_event_from_value(J_Transfer))
Ev_Approval == Unwrap(parse_event_from_value(J_Approval))
W_addr == <<"0", "0", "a", "1">>
W_none == <<"B", "u", "r", "n", "(", ")">>
HexChars == 2 * H256Bytes

Topic(word) == HexStr(TRUE, HexChars, TRUE, word)
T_transfer == Topic(signature(Ev_Transfer))
T_approval == HexStr(FALSE, HexChars, TRUE, signature(Ev_Approval))
T_addr == Topic(W_addr)
T_none == Topic(W_none)
T_short == HexStr(TRUE, HexChars - 2, TRUE, W_addr)
T_dirty == HexStr(TRUE, HexChars, FALSE, W_addr)
Data(bytes) == HexStr(TRUE, 2 * bytes, TRUE, <<>>)
D_odd == HexStr(TRUE, HexChars + 1, TRUE, <<>>)
D_dirty == HexStr(FALSE, HexChars, FALSE, <<>>)
D_word == Data(H256Bytes)

Record(topics, data) == ObjectLine(<<Member("topics", LStrings(topics)), Member("data", LStr(data))>>)

LinePool ==
    { BlankLine, TextLine, ScalarLine,
      Record(<<>>, Data(0)),
      Record(<<>>, D_dirty),
      Record(<<T_transfer, T_addr, T_addr>>, D_word),
      Record(<<T_transfer, T_addr>>, D_word),
      Record(<<T_transfer, T_addr, T_addr, T_addr>>, D_word),
      Record(<<T_transfer>>, Data(3 * H256Bytes)),
      Record(<<T_transfer, T_addr, T_addr>>, Data(0)),
      Record(<<T_transfer, T_addr, T_addr>>, D_odd),
      Record(<<T_transfer, T_dirty, T_addr>>, D_word),
      Record(<<T_approval, T_addr>>, D_word),
      Record(<<T_approval>>, D_word),
      Record(<<T_none>>, D_word),
      Record(<<T_none>>, D_dirty),
      Record(<<T_short>>, D_word),
      ObjectLine(<<Member("data", LStr(D_word))>>),
      ObjectLine(<<Member("topics", LStrings(<<T_approval, T_addr>>))>>),
      ObjectLine(<<Member("topics", LArr(<<LStr(T_approval), LOther>>)), Member("data", LStr(D_word))>>),
      ObjectLine(<<Member("topics", LStrings(<<T_approval, T_addr>>)), Member("data", LOther)>>),
      ObjectLine(<<Member("data", LStr(D_word)), Member("address", LOther),
                   Member("topics", LStrings(<<T_approval, T_addr>>))>>),
      ObjectLine(<<Member("topics", LStrings(<<>>)),
                   Member("topics", LStrings(<<T_approval, T_addr>>)), Member("data", LStr(D_word))>>),
      ArrayLine(<<LStrings(<<T_approval, T_addr>>), LStr(D_word)>>),
      ArrayLine(<<LStrings(<<>>), LStr(D_dirty)>>),
      ArrayLine(<<LStrings(<<T_none>>), LStr(D_word), LOther>>) }

MaxLines == 2

(***************************************************************************)
(* A plain line: blank, not JSON, or a JSON object in which neither topics *)
(* nor data occurs twice.                                                  *)
(***************************************************************************)
PlainLine(line) ==
    \/ line.k # "json"
    \/ /\ line.shape = "object"
       /\ \A i, j \in 1..Len(line.members) :
            (i # j /\ line.members[i].key \in {"topics", "data"})
                => line.members[i].key # line.members[j].key

(***************************************************************************)
(* The decoded parameter lists of the projection check.                    *)
(***************************************************************************)
MaxParams == 2
ParamNames == { <<>>, <<"a">>, arg_key(0), arg_key(1) }
LogInputs == { [name |-> nm, indexed |-> ix] : nm \in ParamNames, ix \in BOOLEAN }
TokenPool ==
    { Token("Uint", 7, 0, <<>>, <<>>),
      Token("Address", 161, 0, <<>>, <<>>),
      Token("Array", 0, 0, <<>>, <<Token("Bool", 1, 0, <<>>, <<>>), Token("Int", 12, 0, <<>>, <<>>)>>) }

IdleParse == type_str = <<>> /\ parsed_type = None /\ ppc = "idle"
IdleRun ==
    /\ abi = AbiScalar /\ args_event = None /\ args_print = FALSE /\ napi_event = ""
    /\ cli = [Fresh EXCEPT !.pc = "idle"] /\ napi = [Fresh EXCEPT !.pc = "idle"]
    /\ cur = BlankLine /\ nread = 0 /\ eof = FALSE /\ input_plain = TRUE
IdleProj ==
    /\ log_inputs = <<>> /\ log_tokens = <<>> /\ log_values = <<>>
    /\ json_out = EmptyObject /\ jpc = "idle"

(***************************************************************************)
(* The parser on its own: parse_param_type applied to one type string.     *)
(***************************************************************************)
ParseInit ==
    /\ type_str \in TypeStrings
    /\ parsed_type = None
    /\ ppc = "ready"
    /\ IdleRun /\ IdleProj

ParseType ==
    /\ ppc = "ready"
    /\ parsed_type' = parse_param_type(type_str)
    /\ ppc' = "parsed"
    /\ UNCHANGED <<type_str, runVars, projVars>>

SpecParse == ParseInit /\ [][ParseType]_vars

(***************************************************************************)
(* The two programs, started on the same ABI document with the same event  *)
(* selection and reading the same input.                                   *)
(***************************************************************************)
StartOn(abis) ==
    /\ abi \in abis
    /\ args_event \in EventArgs
    /\ args_print \in BOOLEAN
    /\ napi_event = unwrap_or(args_event, "")
    /\ cli = Fresh /\ napi = Fresh
    /\ cur = BlankLine /\ nread = 0 /\ eof = FALSE /\ input_plain = TRUE
    /\ IdleParse /\ IdleProj

MainLoad ==
    /\ cli.pc = "start"
    /\ cli' = main_load(cli, abi, args_event)
    /\ UNCHANGED <<abi, args_event, args_print, napi_event, napi, cur, nread, eof, input_plain,
                   parseVars, projVars>>

MainBuildMap ==
    /\ cli.pc = "loaded"
    /\ cli' = main_build_map(cli, args_event)
    /\ UNCHANGED <<abi, args_event, args_print, napi_event, napi, cur, nread, eof, input_plain,
                   parseVars, projVars>>

DecodeFileLoad ==
    /\ napi.pc = "start"
    /\ napi' = decode_file_load(napi, abi, napi_event)
    /\ UNCHANGED <<abi, args_event, args_print, napi_event, cli, cur, nread, eof, input_plain,
                   parseVars, projVars>>

DecodeFileBuildMap ==
    /\ napi.pc = "loaded"
    /\ napi' = decode_file_build_map(napi, napi_event)
    /\ UNCHANGED <<abi, args_event, args_print, napi_event, cli, cur, nread, eof, input_plain,
                   parseVars, projVars>>

(* A program is waiting for the reader: it has used every line produced, or stopped. *)
Waiting(c) == c.pc = "failed" \/ (c.pc = "loop" /\ c.at = nread)

(* reader.lines() yields the next line of the input to both programs. *)
ReadLine ==
    /\ ~eof /\ nread < MaxLines
    /\ Waiting(cli) /\ Waiting(napi)
    /\ cli.pc = "loop" \/ napi.pc = "loop"
    /\ \E line \in LinePool :
        /\ cur' = line
        /\ input_plain' = (input_plain /\ PlainLine(line))
    /\ nread' = nread + 1
    /\ UNCHANGED <<abi, args_event, args_print, napi_event, cli, napi, eof, parseVars, projVars>>

(* reader.lines() is exhausted. *)
EndOfInput ==
    /\ ~eof
    /\ Waiting(cli) /\ Waiting(napi)
    /\ cli.pc = "loop" \/ napi.pc = "loop"
    /\ eof' = TRUE
    /\ UNCHANGED <<abi, args_event, args_print, napi_event, cli, napi, cur, nread, input_plain,
                   parseVars, projVars>>

MainStep ==
    /\ cli.pc = "loop" /\ cli.at < nread
    /\ cli' = main_step(cli, cur, args_print, nread)
    /\ UNCHANGED <<abi, args_event, args_print, napi_event, napi, cur, nread, eof, input_plain,
                   parseVars, projVars>>

(* main, lines 104 to 112: the loop has ended, the count is reported. *)
MainFinish ==
    /\ cli.pc = "loop" /\ cli.at = nread /\ eof
    /\ cli' = [cli EXCEPT !.pc = "done"]
    /\ UNCHANGED <<abi, args_event, args_print, napi_event, napi, cur, nread, eof, input_plain,
                   parseVars, projVars>>

DecodeFileStep ==
    /\ napi.pc = "loop" /\ napi.at < nread
    /\ napi' = decode_file_step(napi, cur, nread)
    /\ UNCHANGED <<abi, args_event, args_print, napi_event, cli, cur, nread, eof, input_plain,
                   parseVars, projVars>>

(* decode_file, lines 67 to 69: Ok(DecodeResult { decoded: total, .. }). *)
DecodeFileFinish ==
    /\ napi.pc = "loop" /\ napi.at = nread /\ eof
    /\ napi' = [napi EXCEPT !.pc = "done"]
    /\ UNCHANGED <<abi, args_event, args_print, napi_event, cli, cur, nread, eof, input_plain,
                   parseVars, projVars>>

LoadInit == StartOn(LoadAbis)
LoadNext == MainLoad \/ MainBuildMap \/ DecodeFileLoad \/ DecodeFileBuildMap
SpecLoad == LoadInit /\ [][LoadNext]_vars

Init == StartOn(RunAbis)
Next ==
    \/ MainLoad \/ MainBuildMap \/ MainStep \/ MainFinish
    \/ DecodeFileLoad \/ DecodeFileBuildMap \/ DecodeFileStep \/ DecodeFileFinish
    \/ ReadLine \/ EndOfInput
Spec == Init /\ [][Next]_vars

(***************************************************************************)
(* One decoded record printed: parse_log hands back log.params, main       *)
(* collects their values and prints tokens_to_json of them (lines 91-101). *)
(***************************************************************************)
ProjInit ==
    /\ \E k \in 0..MaxParams :
        /\ log_inputs \in [1..k -> LogInputs]
        /\ log_tokens \in [1..k -> TokenPool]
    /\ log_values = <<>>
    /\ json_out = EmptyObject
    /\ jpc = "ready"
    /\ IdleParse /\ IdleRun

ParseLog ==
    /\ jpc = "ready"
    /\ log_values' = log_params(log_inputs, log_tokens)
    /\ jpc' = "parsed"
    /\ UNCHANGED <<log_inputs, log_tokens, json_out, parseVars, runVars>>

PrintJson ==
    /\ jpc = "parsed"
    /\ json_out' = tokens_to_json(log_inputs, log_values)
    /\ jpc' = "printed"
    /\ UNCHANGED <<log_inputs, log_tokens, log_values, parseVars, runVars>>

ProjNext == ParseLog \/ PrintJson
SpecProject == ProjInit /\ [][ProjNext]_vars
(***************************************************************************)
(*                         The claims                                      *)
(***************************************************************************)

(* The ABI type string type_str ends in the bracket group [3]. *)
S_fixed3 == <<"[", "3", "]">>

(***************************************************************************)
(* C3: for every type string T ++ "[]" where T parses to D, the parser     *)
(* returns Array(D), and for T ++ "[3]" it returns FixedArray(D, 3): the   *)
(* rightmost bracket group is peeled first.                                *)
(***************************************************************************)
C3_ArraySuffixPeeled ==
    ppc = "parsed" =>
        /\ (ends_with(type_str, S_brackets)
            /\ IsSome(parse_param_type(SubSeq(type_str, 1, Len(type_str) - 2))))
           => parsed_type =
                Some(ParamType_Array(Unwrap(parse_param_type(SubSeq(type_str, 1, Len(type_str) - 2)))))
        /\ (ends_with(type_str, S_fixed3)
            /\ IsSome(parse_param_type(SubSeq(type_str, 1, Len(type_str) - 3))))
           => parsed_type =
                Some(ParamType_FixedArray(
                        Unwrap(parse_param_type(SubSeq(type_str, 1, Len(type_str) - 3))), 3))

ValidDescriptor(t) ==
    /\ t.base \in {"Uint", "Int"} => (t.n > 0 /\ t.n % 8 = 0 /\ t.n <= 256)
    /\ t.base = "FixedBytes" => (t.n >= 1 /\ t.n <= 32)

AllDigits(str) == str # <<>> /\ \A i \in 1..Len(str) : IsDigit(str[i])

(***************************************************************************)
(* C4: every descriptor the parser returns has a Uint/Int width that is a  *)
(* positive multiple of 8 and at most 256 and a FixedBytes length in       *)
(* 1..32; uint/int followed by anything but digits is rejected (only bare  *)
(* uint/int default to 256).                                               *)
(***************************************************************************)
C4_DescriptorInvariant ==
    ppc = "parsed" =>
        /\ IsSome(parsed_type) => ValidDescriptor(Unwrap(parsed_type))
        /\ (starts_with(type_str, S_uint) /\ type_str # S_uint
            /\ ~AllDigits(SliceFrom(type_str, 4)) /\ ~ends_with(type_str, S_brackets)
            /\ ~ends_with(type_str, S_fixed3))
           => parsed_type = None

(***************************************************************************)
(* A record: an input line that is a JSON object with one topics member,   *)
(* an array of strings, and one data member, a string.                     *)
(***************************************************************************)
IsRecord(line) ==
    /\ line.k = "json" /\ line.shape = "object" /\ PlainLine(line)
    /\ IsSome(from_str_LogLine(line))
RecTopics(line) == Unwrap(from_str_LogLine(line)).topics
RecData(line) == Unwrap(from_str_LogLine(line)).data

(* Program state c holds the result of a pass over the current line. *)
JustRead(c) == nread > 0 /\ c.at = nread /\ c.pc \in {"loop", "failed", "done"}

(***************************************************************************)
(* C1: a record whose topics list is empty, or has fewer entries than 1 +  *)
(* the number of indexed parameters of the schema used for it, ends in an  *)
(* error: it is never skipped without one and never counted as decoded.    *)
(***************************************************************************)
C1_ShortTopicsFail ==
    \A c \in {cli, napi} :
        (JustRead(c) /\ IsRecord(cur)
         /\ (\/ RecTopics(cur) = <<>>
             \/ /\ IsSome(c.last.event)
                /\ Len(RecTopics(cur)) < 1 + Len(indexed_params(Unwrap(c.last.event), TRUE))))
        => c.last.outcome = "error"

(***************************************************************************)
(* C6: a record with a topics entry that is not 32 bytes of valid hex, or  *)
(* with data that is not valid hex, ends in an error, whatever the number  *)
(* of its topics.                                                          *)
(***************************************************************************)
C6_MalformedHexFails ==
    \A c \in {cli, napi} :
        (JustRead(c) /\ IsRecord(cur)
         /\ (\/ \E i \in 1..Len(RecTopics(cur)) : ~IsSome(parse_h256(RecTopics(cur)[i]))
             \/ ~IsSome(parse_hex_bytes(RecData(cur)))))
        => c.last.outcome = "error"

(***************************************************************************)
(* C2: in dispatch mode a record whose first topic is the signature hash   *)
(* of no loaded schema fails with the unknown-topic0 error, and the        *)
(* topic0 map built at start-up is changed by no pass of the loop,         *)
(* successful or failing.                                                  *)
(***************************************************************************)
Signatures(events) == { signature(events[i]) : i \in 1..Len(events) }

UnknownTopic0Fails(c, err) ==
    (/\ JustRead(c) /\ IsSome(c.topic0_to_event) /\ IsRecord(cur)
     /\ IsSome(collect_h256(RecTopics(cur)))
     /\ RecTopics(cur) # <<>>
     /\ Unwrap(collect_h256(RecTopics(cur)))[1] \notin Signatures(c.all_events))
    => c.last = Fail(err)

C2_Dispatch ==
    /\ UnknownTopic0Fails(cli, "Unknown topic0 for provided ABI")
    /\ UnknownTopic0Fails(napi, "unknown topic0")

C2_Frame ==
    /\ cli.pc \in {"loop", "failed", "done"} => cli'.topic0_to_event = cli.topic0_to_event
    /\ napi.pc \in {"loop", "failed", "done"} => napi'.topic0_to_event = napi.topic0_to_event

C2_RegistryUnchanged == [](C2_Dispatch) /\ [][C2_Frame]_vars

C2_Witness ==
    /\ JustRead(cli) /\ IsSome(cli.topic0_to_event)
    /\ DOMAIN Unwrap(cli.topic0_to_event) # {}
    /\ cli.total > 0
    /\ cli.last = Fail("Unknown topic0 for provided ABI")

(***************************************************************************)
(* C5: in dispatch mode the map built from the schemas in load order has a *)
(* schema under hash h exactly when some loaded (non-anonymous) schema has *)
(* signature hash h, and that schema is the last one in load order with    *)
(* that hash.                                                              *)
(***************************************************************************)
LastWithHash(events, h) ==
    events[CHOOSE i \in 1..Len(events) :
              /\ signature(events[i]) = h
              /\ \A j \in (i + 1)..Len(events) : signature(events[j]) # h]

RegistryIsLastWins(c) ==
    LET map == Unwrap(c.topic0_to_event)
    IN  \A h \in DOMAIN map \cup Signatures(c.all_events) \cup {W_none, signature(Ev_Transfer)} :
            /\ IsSome(map_get(map, h))
               <=> \E i \in 1..Len(c.all_events) :
                      ~c.all_events[i].anonymous /\ signature(c.all_events[i]) = h
            /\ IsSome(map_get(map, h)) => Unwrap(map_get(map, h)) = LastWithHash(c.all_events, h)

C5_LastSchemaWins ==
    /\ (cli.pc = "loop" /\ args_event = None)
       => (IsSome(cli.topic0_to_event) /\ RegistryIsLastWins(cli))
    /\ (napi.pc = "loop" /\ napi_event = "")
       => (IsSome(napi.topic0_to_event) /\ RegistryIsLastWins(napi))

C5_Witness ==
    /\ cli.pc = "loop" /\ args_event = None
    /\ Len(cli.all_events) = 2
    /\ signature(cli.all_events[1]) = signature(cli.all_events[2])
    /\ cli.all_events[1] # cli.all_events[2]
    /\ map_get(Unwrap(cli.topic0_to_event), signature(cli.all_events[1])) = Some(cli.all_events[2])

(***************************************************************************)
(* The ABI documents load_event accepts, and the entries it reads.         *)
(***************************************************************************)
Supported(doc) ==
    doc.k = "array" \/ (doc.k = "object" /\ (doc.abi.k = "array" \/ doc.events.k = "array"))
AbiEntries(doc) ==
    IF doc.k = "array" THEN doc.items
    ELSE IF doc.abi.k = "array" THEN doc.abi.items
    ELSE doc.events.items

TypeString(input) == IF input.type.k = "str" THEN input.type.s ELSE <<>>
IsEventEntry(e) == e.type.k = "str" /\ e.type.s = "event"
InputTypesParse(e) ==
    \A i \in 1..Len(e.inputs.items) : IsSome(parse_param_type(TypeString(e.inputs.items[i])))
WellFormedEntry(e) == e.name.k = "str" /\ e.inputs.k = "array"

SchemaOf(e) ==
    Event(e.name.s,
          [i \in 1..Len(e.inputs.items) |->
              EventParam(IF e.inputs.items[i].name.k = "str" THEN e.inputs.items[i].name.s ELSE <<>>,
                         Unwrap(parse_param_type(TypeString(e.inputs.items[i]))),
                         e.inputs.items[i].indexed.k = "bool" /\ e.inputs.items[i].indexed.b)])

UnsupportedErr == "Unsupported ABI JSON structure"
Built(c) == c.pc \in {"loaded", "loop"}

(***************************************************************************)
(* C7 as stated: schema building returns exactly the entries whose type is *)
(* "event" and whose every input type string parses, in their order, and   *)
(* fails only for an unsupported top-level structure.                      *)
(***************************************************************************)
C7_AllEventEntriesKept ==
    \A c \in {cli, napi} :
        /\ Built(c) =>
            Len(c.all_events)
              = Len(SelectSeq(AbiEntries(abi), LAMBDA e : IsEventEntry(e) /\ InputTypesParse(e)))
        /\ c.pc = "failed" => (c.last.err = UnsupportedErr <=> ~Supported(abi))

(***************************************************************************)
(* C7 as amended: schema building returns exactly the entries whose type   *)
(* is "event", whose name is a string, whose inputs member is an array and *)
(* whose every input type string parses, as schemas and in their order;    *)
(* every other entry is dropped without failing the load, and the build    *)
(* fails only for an unsupported top-level structure.                      *)
(***************************************************************************)
C7_SchemaBuilding ==
    \A c \in {cli, napi} :
        /\ Built(c) =>
            /\ Supported(abi)
            /\ LET kept == SelectSeq(AbiEntries(abi),
                                     LAMBDA e : IsEventEntry(e) /\ WellFormedEntry(e) /\ InputTypesParse(e))
               IN  c.all_events = [j \in 1..Len(kept) |-> SchemaOf(kept[j])]
        /\ c.pc = "failed" => (c.last.err = UnsupportedErr <=> ~Supported(abi))

C7_Witness ==
    /\ cli.pc = "loaded"
    /\ abi = AbiObject(JNotArray, JArray(<<J_Tuple, J_Approval>>))
    /\ cli.all_events = <<Ev_Approval>>

(***************************************************************************)
(* C8: in named mode (the caller supplies event name n) the selected       *)
(* schema is the first one in load order named n, and loading fails with   *)
(* the event-not-found error when there is none; with no name and no       *)
(* events loading fails with the empty-ABI error; the selected schema is   *)
(* the one used for every record.                                          *)
(***************************************************************************)
BuiltEvents == abi_events(abi).events
FirstNamed(events, n) ==
    events[CHOOSE i \in 1..Len(events) :
              events[i].name = n /\ \A j \in 1..(i - 1) : events[j].name # n]
HasNamed(events, n) == \E i \in 1..Len(events) : events[i].name = n

NamedSelection(c, n, notFound) ==
    /\ (Built(c) \/ c.at > 0) =>
        /\ HasNamed(BuiltEvents, n)
        /\ c.selected_event = FirstNamed(BuiltEvents, n)
    /\ (c.pc = "failed" /\ c.at = 0 /\ Supported(abi)) =>
        (~HasNamed(BuiltEvents, n) /\ c.last.err = notFound)
    /\ (JustRead(c) /\ IsSome(c.last.event)) => c.last.event = Some(c.selected_event)

UnnamedSelection(c, emptyAbi) ==
    (c.pc = "failed" /\ c.at = 0 /\ Supported(abi)) =>
        (BuiltEvents = <<>> /\ c.last.err = emptyAbi)

C8_NamedMode ==
    /\ IsSome(args_event) => NamedSelection(cli, Unwrap(args_event), "Event not found in ABI")
    /\ args_event = None => UnnamedSelection(cli, "No events found in ABI")
    /\ napi_event # "" => NamedSelection(napi, napi_event, "Event not found")
    /\ napi_event = "" => UnnamedSelection(napi, "No events in ABI")

(***************************************************************************)
(* C9: for every position i of a decoded parameter list the printed object *)
(* has the key of the i-th parameter (its name, or "arg" followed by i     *)
(* when the name is empty) and under it the projection of the i-th value.  *)
(***************************************************************************)
KeyOf(i) == IF log_inputs[i].name = <<>> THEN arg_key(i - 1) ELSE log_inputs[i].name

C9_EveryParameterProjected ==
    jpc = "printed" =>
        \A i \in 1..Len(log_values) :
            /\ KeyOf(i) \in DOMAIN json_out
            /\ json_out[KeyOf(i)] = token_to_json(log_values[i])

(***************************************************************************)
(* C10 as stated: started with the same ABI and the same event selection   *)
(* (the same non-empty name, or no name for main and "" for decode_file)   *)
(* on the same lines, the two programs either both fail, at the same line, *)
(* or neither does and their decoded counts agree.                         *)
(***************************************************************************)
SameSelection ==
    \/ args_event = None /\ napi_event = ""
    \/ IsSome(args_event) /\ Unwrap(args_event) # "" /\ napi_event = Unwrap(args_event)
Settled(c) == c.pc \in {"loop", "failed", "done"}
Agree ==
    (Settled(cli) /\ Settled(napi) /\ cli.at = napi.at)
    => ((cli.pc = "failed") = (napi.pc = "failed") /\ cli.total = napi.total)

C10_SameOutcome == SameSelection => Agree

(***************************************************************************)
(* C10 as amended: the same, for input lines each of which is blank, not   *)
(* JSON, or a JSON object in which neither topics nor data occurs twice;   *)
(* and in both programs a pass of the loop adds one to the count exactly   *)
(* when parse_log succeeded, and nothing on a blank line or on a record    *)
(* with an empty topics list.                                              *)
(***************************************************************************)
CountsOne(c, d) ==
    (c.at # d.at) =>
        /\ d.total - c.total \in {0, 1}
        /\ d.total - c.total = 1 <=> d.last.outcome = "decoded"
        /\ d.last.outcome = "decoded" =>
            (IsSome(d.last.event) /\ IsSome(from_str_LogLine(cur))
             /\ parse_log(Unwrap(d.last.event), Unwrap(collect_h256(RecTopics(cur))),
                          Unwrap(parse_hex_bytes(RecData(cur)))))
        /\ cur.k = "blank" => d.total = c.total
        /\ (IsRecord(cur) /\ RecTopics(cur) = <<>>) => d.total = c.total

C10_PlainAgree == (SameSelection /\ input_plain) => Agree
C10_Counts == CountsOne(cli, cli') /\ (input_plain => CountsOne(napi, napi'))
C10_SameOutcomeOnPlainLines == [](C10_PlainAgree) /\ [][C10_Counts]_vars

C10_Witness ==
    /\ SameSelection /\ input_plain /\ nread = MaxLines
    /\ cli.pc = "done" /\ napi.pc = "done"
    /\ cli.total = MaxLines /\ napi.total = MaxLines
====
